---- MODULE Spec2Model ----
(***************************************************************************)
(* State-machine model of the booster WebSocket session broker:            *)
(*   src/hub.go            Hub (registry, event loop, fan-out, shutdown)   *)
(*   src/unnamed/part_000  Session (writeMessage, writeRaw, write / read   *)
(*                         pumps, Write / Close)                           *)
(*   src/booster.go        Booster (PushMessage, HandleWs, CloseBooster,   *)
(*                         getHub)                                         *)
(* Unbuffered Go channels (register, unRegister, broadcast, Hub.exited,    *)
(* Session.exited) are rendezvous: one action moves sender and receiver.   *)
(* The buffered channel Session.output is a bounded FIFO plus a closed     *)
(* flag.  Each goroutine has a program counter.                            *)
(***************************************************************************)
EXTENDS Integers, Sequences, FiniteSets, TLC

\* ------------------------------------------------------------------ bounds
\* capacity of Session.output (config.MessageBufferSize), kept small
MessageBufferSize == 1
\* number of PushMessage calls the host application makes
MaxPush == 1
\* number of Session.Write / Session.Close calls the host application makes
MaxWrite == 2
\* number of getHub calls each concurrent caller makes
MaxGetHub == 2

\* ---------------------------------------------------------------- scenario
Sessions == {"s1", "s2", "s3"}
AppIds == {"x", "y"}
Callers == {"c1", "c2", "c3"}

\* Session.userId: s1 and s2 are two connections of user a, s3 is user b;
\* a user c, named in some pushes, never connects
userId == [s \in Sessions |-> IF s = "s3" THEN "b" ELSE "a"]

\* websocket message kinds used by the code
TextMessage == "text"
CloseMessage == "close"

\* FilterFunc values: nil, or a predicate given by the set it accepts
NoFilter == [nil |-> TRUE, pass |-> {}]
Filter(S) == [nil |-> FALSE, pass |-> S]
FilterChoices == {NoFilter, Filter({"s1", "s3"}), Filter({"s2"})}
TargetChoices == {<< >>, <<"a">>, <<"b">>, <<"c", "b">>, <<"a", "a">>}

\* the envelope a pusher or the Hub holds; NoEnv = none
NoEnv == [id |-> 0, userIds |-> << >>, filter |-> NoFilter]
\* what a Session.output slot holds of an envelope: kind and identity
\* (id 0: built by the session itself, n > 0: the n-th PushMessage)
Msg(t, id) == [t |-> t, id |-> id]

NoKey == "none"
\* the callbacks of the Booster that the code invokes (src/booster.go:54-58);
\* closeHandler is stored by HandleClose and never read
AllHandlers == {"message", "error", "connect", "disconnect"}
NoHub == 0

VARIABLES
  \* ---- Hub (src/hub.go:7-17)
  hubPc,      \* position of Hub.Run
  closed,     \* Hub.closed (0 / 1)
  exitReq,    \* Hub.exit has been closed
  sessions,   \* Hub.sessions: userId -> sequence of sessions
  hubEnv,     \* envelope being fanned out
  hubTodo,    \* sessions the running loop still has to visit
  exitKey,    \* key of the range loop of the exit case
  \* ---- Session (src/unnamed/part_000:12-29)
  hwPc,       \* position of HandleWs for the peer of session s
  wpPc,       \* position of writePump
  output,     \* Session.output contents
  outClosed,  \* Session.output has been closed
  connClosed, \* Session.conn has been closed
  errLog,     \* invocations of the error callback, in order
  discCount,  \* invocations of the disconnect callback
  writes,     \* Session.Write / Close calls made so far
  peers,      \* the peers that connect in this run
  handlers,   \* the callbacks the host has registered on the Booster
  config,     \* Booster.config: MessageBufferSize, the capacity of Session.output
  tapped,     \* the sessions whose traffic is recorded in accepted and written
  \* ---- PushMessage caller
  pushPc, pushEnv, pushes, pushResult, pushSawClosed,
  \* ---- Hub.Close caller
  closerPc,
  \* ---- history of the Hub's work
  fwd,        \* sessions the running fan-out has forwarded to, in order
  regd,       \* sessions whose register request was processed
  unregd,     \* sessions whose unRegister request was processed
  joined,     \* sessions whose exited signal the exit case received
  \* ---- Booster.hubs and getHub callers (src/booster.go:60-62, 182-200)
  hubs,       \* Booster.hubs: appId -> hub
  created,    \* hubs created (and event loops started) per appId
  rwReaders, rwWriter,   \* Booster.RWMutex
  ghPc, ghApp, ghH, ghCalls,
  \* what has gone through each tapped session, in order
  accepted,   \* the envelopes taken into the outbound queue
  written     \* the envelopes of the queue written to the transport

hubVars == <<hubPc, closed, exitReq, sessions, hubEnv, hubTodo, exitKey>>
sessVars == <<hwPc, wpPc, output, outClosed, connClosed, errLog, discCount, writes, peers,
             handlers, config, tapped>>
pushVars == <<pushPc, pushEnv, pushes, pushResult, pushSawClosed>>
histVars == <<fwd, regd, unregd, joined>>
ghVars == <<hubs, created, rwReaders, rwWriter, ghPc, ghApp, ghH, ghCalls>>
wireVars == <<accepted, written>>
vars == <<hubVars, sessVars, pushVars, closerPc, histVars, ghVars, wireVars>>

\* a panic that nothing recovers has ended the process: no goroutine takes
\* another step
Crashed ==
  \/ closerPc = "panicked"
  \/ \E s \in Sessions : hwPc[s] = "panicked" \/ wpPc[s] = "panicked"

\* ----------------------------------------------------------------- helpers
Range(q) == {q[i] : i \in 1..Len(q)}

\* Hub.Closed with the flag never read as set
ClosedNever == FALSE

\* Hub.Closed (src/hub.go:115-121)
Closed == closed = 1

\* the filter test left out
FilterIgnored(e, s) == FALSE

\* e.filter != nil && !e.filter(s)  (src/hub.go:86, 97)
FilterRejects(e, s) == ~e.filter.nil /\ s \notin e.filter.pass

\* h.sessions[userId], ok  (src/hub.go:54, 65, 81)
HasKey(reg, u) == u \in DOMAIN reg
Lookup(reg, u) == IF HasKey(reg, u) THEN reg[u] ELSE << >>

\* h.sessions[s.userId] = append(h.sessions[s.userId], s)  (src/hub.go:54-58)
AddSession(reg, s) ==
  [u \in DOMAIN reg \cup {userId[s]} |->
     IF u = userId[s] THEN Append(Lookup(reg, u), s) ELSE reg[u]]

\* index of the first element identical to s, 0 if none  (src/hub.go:66-67)
RECURSIVE IndexOf(_, _, _)
IndexOf(ss, s, i) ==
  IF i > Len(ss) THEN 0
  ELSE IF ss[i] = s THEN i
  ELSE IndexOf(ss, s, i + 1)

\* ss[:i] alone: the sessions behind the removed one are lost
CutAtTruncate(ss, i) == SubSeq(ss, 1, i - 1)

\* append(ss[:i], ss[i+1:]...)  (src/hub.go:68)
CutAt(ss, i) == SubSeq(ss, 1, i - 1) \o SubSeq(ss, i + 1, Len(ss))

\* the unRegister case  (src/hub.go:65-72)
RemoveSession(reg, s) ==
  IF ~HasKey(reg, userId[s]) THEN reg
  ELSE LET ss == reg[userId[s]]
           i == IndexOf(ss, s, 1)
       IN IF i = 0 THEN reg
          ELSE [reg EXCEPT ![userId[s]] = CutAt(ss, i)]

\* delete(h.sessions, key)  (src/hub.go:44)
DeleteKey(reg, k) == [u \in DOMAIN reg \ {k} |-> reg[u]]

\* sessions visited by the all-users branch when the map is ranged over in
\* the key order ks  (src/hub.go:95-102)
RECURSIVE AllVisit(_, _)
AllVisit(ks, reg) ==
  IF ks = << >> THEN << >>
  ELSE reg[Head(ks)] \o AllVisit(Tail(ks), reg)

\* the orders in which a Go range may visit the keys of a map
KeyOrders(K) ==
  {ks \in [1..Cardinality(K) -> K] : \A i, j \in 1..Cardinality(K) : i # j => ks[i] # ks[j]}

\* the targeted branch without its closing break: the all-users loop
\* runs as well
TargetVisitNoBreak(uids, reg) ==
  LET ks == CHOOSE o \in KeyOrders(DOMAIN reg) : TRUE
      RECURSIVE Listed(_)
      Listed(us) == IF us = << >> THEN << >>
                    ELSE Lookup(reg, Head(us)) \o Listed(Tail(us))
  IN Listed(uids) \o AllVisit(ks, reg)

\* sessions visited by the targeted branch, in visiting order
\* (src/hub.go:80-91): the users in list order, unknown users skipped
RECURSIVE TargetVisit(_, _)
TargetVisit(uids, reg) ==
  IF uids = << >> THEN << >>
  ELSE Lookup(reg, Head(uids)) \o TargetVisit(Tail(uids), reg)

\* ------------------------------------------------------------ initial state
EmptyReg == [u \in {} |-> << >>]

\* NewHub, NewBooster: an open Hub with an empty registry whose event loop
\* waits in its select; no peer has connected yet
InitCore ==
  /\ hubPc = "select" /\ closed = 0 /\ exitReq = FALSE
  /\ sessions = EmptyReg /\ hubEnv = NoEnv /\ hubTodo = << >> /\ exitKey = NoKey
  /\ hwPc = [s \in Sessions |-> "idle"]
  /\ wpPc = [s \in Sessions |-> "idle"]
  /\ output = [s \in Sessions |-> << >>]
  /\ outClosed = [s \in Sessions |-> FALSE]
  /\ connClosed = [s \in Sessions |-> FALSE]
  /\ errLog = [s \in Sessions |-> << >>]
  /\ accepted = [s \in Sessions |-> << >>]
  /\ written = [s \in Sessions |-> << >>]
  /\ discCount = [s \in Sessions |-> 0]
  /\ writes = 0
  /\ pushPc = "idle" /\ pushEnv = NoEnv /\ pushes = 0
  /\ pushResult = "none" /\ pushSawClosed = FALSE
  /\ closerPc = "idle"
  /\ fwd = << >> /\ regd = {} /\ unregd = {} /\ joined = {}

InitCallers ==
  /\ rwReaders = 0 /\ rwWriter = FALSE
  /\ ghPc = [c \in Callers |-> "idle"]
  /\ ghApp = [c \in Callers |-> "x"]
  /\ ghH = [c \in Callers |-> NoHub]
  /\ ghCalls = [c \in Callers |-> 0]

\* the Hub of appId x has been created by an earlier getHub call
InitHub ==
  /\ InitCore /\ InitCallers
  /\ hubs = [a \in {"x"} |-> 1]
  /\ created = [a \in AppIds |-> IF a = "x" THEN 1 ELSE 0]

\* every callback is registered, the queues have the capacity
\* MessageBufferSize and no session is tapped
Defaults ==
  /\ handlers = AllHandlers
  /\ config = [MessageBufferSize |-> MessageBufferSize]
  /\ tapped = {}

\* two peers connect, two connections of one user
Init == InitHub /\ peers = {"s1", "s2"} /\ Defaults

\* two peers connect: two connections of one user, or of two users
InitPair ==
  InitHub /\ peers \in {{"s1", "s2"}, {"s1", "s3"}} /\ Defaults

\* ------------------------------------------------- Session.writeMessage
\* the select of writeMessage (src/unnamed/part_000:42-54) on queue q of a
\* session: a send on a closed channel panics and the deferred recover
\* swallows it; a send into free buffer space succeeds; otherwise the
\* default case calls the error callback
\* a full queue overwritten instead of left alone
WriteMessageOverwrite(q, isClosed, m) ==
  IF isClosed THEN q
  ELSE IF Len(q) < config.MessageBufferSize THEN Append(q, m)
  ELSE Append(Tail(q), m)

\* a queue that hands out the newest envelope first
WriteMessageQueueFront(q, isClosed, m) ==
  IF isClosed THEN q
  ELSE IF Len(q) < config.MessageBufferSize THEN <<m>> \o q
  ELSE q

WriteMessageQueue(q, isClosed, m) ==
  IF isClosed THEN q
  ELSE IF Len(q) < config.MessageBufferSize THEN Append(q, m)
  ELSE q

\* the record of a tapped session gets m at its end
Record(s, log, m) == IF s \in tapped THEN Append(log, m) ELSE log

\* the record of the envelopes taken into the queue, after writeMessage of
\* m: m is recorded when the queue has taken it
Accept(s, log, m) ==
  IF WriteMessageQueue(output[s], outClosed[s], m) = output[s] THEN log
  ELSE Record(s, log, m)

WriteMessageErrors(q, isClosed, log) ==
  IF isClosed THEN log
  ELSE IF Len(q) < config.MessageBufferSize THEN log
  ELSE IF "error" \in handlers THEN Append(log, "full")
  ELSE log

\* Session.Write / WriteBinary / Close called by the host application
\* (src/unnamed/part_000:145-157)
SessionWrite(s, t) ==
  /\ hwPc[s] \notin {"idle", "rejected"}
  /\ writes < MaxWrite
  /\ writes' = writes + 1
  /\ output' = [output EXCEPT ![s] = WriteMessageQueue(@, outClosed[s], Msg(t, 0))]
  /\ errLog' = [errLog EXCEPT ![s] = WriteMessageErrors(output[s], outClosed[s], @)]
  /\ UNCHANGED <<hubVars, hwPc, wpPc, outClosed, connClosed, discCount,
                 pushVars, closerPc, histVars, ghVars, written, peers, handlers, config, tapped>>
  /\ accepted' = [accepted EXCEPT ![s] = Accept(s, @, Msg(t, 0))]

\* ------------------------------------------------------ Session.writePump
\* The ticker case of the loop (src/unnamed/part_000:107-108) writes a ping
\* frame and discards the outcome: it changes none of the state below.
\* conn.WriteMessage succeeds only on an open connection, and then only if
\* the transport accepts the frame within the write deadline (ok)
WriteSucceeds(s, ok) == ~connClosed[s] /\ ok

\* case msg, ok := <-s.output with ok (src/unnamed/part_000:96, 102-105)
\* and writeRaw (57-74): a failed write is reported and ends the loop; a
\* written close frame closes the connection and the loop goes on; the
\* error callback is called without a nil test (line 103)
WpWrite(s, ok) ==
  /\ wpPc[s] = "loop"
  /\ output[s] # << >>
  /\ output' = [output EXCEPT ![s] = Tail(@)]
  /\ IF WriteSucceeds(s, ok)
       THEN /\ connClosed' = [connClosed EXCEPT ![s] = @ \/ Head(output[s]).t = CloseMessage]
            /\ UNCHANGED <<wpPc, errLog>>
       ELSE /\ IF "error" \in handlers
                 THEN /\ errLog' = [errLog EXCEPT ![s] = Append(@, "write")]
                      /\ wpPc' = [wpPc EXCEPT ![s] = "exiting"]
                 ELSE /\ wpPc' = [wpPc EXCEPT ![s] = "panicked"]
                      /\ UNCHANGED errLog
            /\ UNCHANGED connClosed
  /\ UNCHANGED <<hubVars, hwPc, outClosed, discCount, writes,
                 pushVars, closerPc, histVars, ghVars, accepted, peers, handlers, config, tapped>>
  /\ written' = [written EXCEPT ![s] = IF WriteSucceeds(s, ok) THEN Record(s, @, Head(output[s])) ELSE @]

\* case msg, ok := <-s.output with !ok (src/unnamed/part_000:97-100):
\* s.close() writes a close frame, ignoring the outcome, and the loop ends
WpOutputClosed(s, ok) ==
  /\ wpPc[s] = "loop"
  /\ output[s] = << >> /\ outClosed[s]
  /\ connClosed' = [connClosed EXCEPT ![s] = @ \/ WriteSucceeds(s, ok)]
  /\ wpPc' = [wpPc EXCEPT ![s] = "exiting"]
  /\ UNCHANGED <<hubVars, hwPc, output, outClosed, errLog, discCount, writes,
                 pushVars, closerPc, histVars, ghVars, wireVars, peers, handlers, config, tapped>>

\* the deferred ticker.Stop and s.conn.Close run when writePump returns,
\* after the send on s.exited (src/unnamed/part_000:88-91)
WpDeferred(s) ==
  /\ wpPc[s] = "deferred"
  /\ connClosed' = [connClosed EXCEPT ![s] = TRUE]
  /\ wpPc' = [wpPc EXCEPT ![s] = "done"]
  /\ UNCHANGED <<hubVars, hwPc, output, outClosed, errLog, discCount, writes,
                 pushVars, closerPc, histVars, ghVars, wireVars, peers, handlers, config, tapped>>

\* ---------------------------------------------------------------- HandleWs
\* HandleWs up to the construction of the session (src/booster.go:124-161):
\* a closed hub rejects the peer
HwConnect(s) ==
  /\ hwPc[s] = "idle"
  /\ s \in peers
  /\ hwPc' = [hwPc EXCEPT ![s] = IF Closed THEN "rejected" ELSE "register"]
  /\ UNCHANGED <<hubVars, wpPc, output, outClosed, connClosed, errLog, discCount,
                 writes, pushVars, closerPc, histVars, ghVars, wireVars, peers, handlers, config, tapped>>

\* go session.writePump(); session.readPump() starts (src/booster.go:165-166)
HwSpawn(s) ==
  /\ hwPc[s] = "spawn"
  /\ hwPc' = [hwPc EXCEPT ![s] = "read"]
  /\ wpPc' = [wpPc EXCEPT ![s] = "loop"]
  /\ UNCHANGED <<hubVars, output, outClosed, connClosed, errLog, discCount,
                 writes, pushVars, closerPc, histVars, ghVars, wireVars, peers, handlers, config, tapped>>

\* readPump ends (src/unnamed/part_000:116-142): ReadMessage fails (always
\* on a closed connection) and the error callback runs, or a close frame
\* arrives; the deferred s.conn.Close runs.  The error callback is called
\* without a nil test (line 132).
ReadPumpExit(s, why) ==
  /\ hwPc[s] = "read"
  /\ why \in {"error", "closeFrame"}
  /\ connClosed[s] => why = "error"
  /\ IF why = "error" /\ "error" \notin handlers
       THEN /\ hwPc' = [hwPc EXCEPT ![s] = "panicked"]
            /\ UNCHANGED errLog
       ELSE /\ errLog' = [errLog EXCEPT ![s] = IF why = "error" THEN Append(@, "read") ELSE @]
            /\ hwPc' = [hwPc EXCEPT ![s] = "unregister"]
  /\ connClosed' = [connClosed EXCEPT ![s] = TRUE]
  /\ UNCHANGED <<hubVars, wpPc, output, outClosed, discCount, writes,
                 pushVars, closerPc, histVars, ghVars, wireVars, peers, handlers, config, tapped>>

\* one iteration of readPump that hands a data frame to the message
\* callback (src/unnamed/part_000:126-128, 140): the callback changes none
\* of the state below; the call is made without a nil test
ReadPumpMessage(s) ==
  /\ hwPc[s] = "read"
  /\ ~connClosed[s]
  /\ hwPc' = [hwPc EXCEPT ![s] = IF "message" \in handlers THEN @ ELSE "panicked"]
  /\ UNCHANGED <<hubVars, wpPc, output, outClosed, connClosed, errLog, discCount,
                 writes, pushVars, closerPc, histVars, ghVars, wireVars, peers, handlers, config, tapped>>

\* ----------------------------------------------------------------- Hub.Run
\* case s := <-h.register, paired with hub.register <- session of HandleWs
\* (src/hub.go:49-58, src/booster.go:163)
HubRegister(s) ==
  /\ hubPc = "select"
  /\ hwPc[s] = "register"
  /\ hwPc' = [hwPc EXCEPT ![s] = "spawn"]
  /\ IF Closed
       THEN UNCHANGED <<sessions, regd>>
       ELSE /\ sessions' = AddSession(sessions, s)
            /\ regd' = regd \cup {s}
  /\ UNCHANGED <<hubPc, closed, exitReq, hubEnv, hubTodo, exitKey,
                 wpPc, output, outClosed, connClosed, errLog, discCount, writes,
                 pushVars, closerPc, fwd, unregd, joined, ghVars, wireVars, peers, handlers, config, tapped>>

\* case s := <-h.unRegister, paired with hub.unRegister <- session of
\* HandleWs, which then calls the disconnect callback and returns
\* (src/hub.go:60-72, src/booster.go:168-172)
HubUnRegister(s) ==
  /\ hubPc = "select"
  /\ hwPc[s] = "unregister"
  /\ hwPc' = [hwPc EXCEPT ![s] = "done"]
  /\ discCount' = [discCount EXCEPT ![s] = IF "disconnect" \in handlers THEN @ + 1 ELSE @]
  /\ IF Closed
       THEN UNCHANGED <<sessions, unregd>>
       ELSE /\ sessions' = RemoveSession(sessions, s)
            /\ unregd' = unregd \cup {s}
  /\ UNCHANGED <<hubPc, closed, exitReq, hubEnv, hubTodo, exitKey,
                 wpPc, output, outClosed, connClosed, errLog, writes,
                 pushVars, closerPc, fwd, regd, joined, ghVars, wireVars, peers, handlers, config, tapped>>

\* case e := <-h.broadcast, paired with h.broadcast <- message of
\* PushMessage, which returns nil (src/hub.go:74-102, src/booster.go:114-115);
\* the sessions to visit are those of the listed users, or of every user in
\* the order the map is ranged over
HubBroadcast ==
  /\ hubPc = "select"
  /\ pushPc = "send"
  /\ pushPc' = "idle"
  /\ pushResult' = "ok"
  /\ IF Closed
       THEN UNCHANGED <<hubPc, hubEnv, hubTodo>>
       ELSE /\ hubPc' = "fanout"
            /\ hubEnv' = pushEnv
            /\ IF Len(pushEnv.userIds) > 0
                 THEN hubTodo' = TargetVisit(pushEnv.userIds, sessions)
                 ELSE \E ks \in KeyOrders(DOMAIN sessions) :
                        hubTodo' = AllVisit(ks, sessions)
  /\ fwd' = << >>
  /\ UNCHANGED <<closed, exitReq, sessions, exitKey, sessVars,
                 pushEnv, pushes, pushSawClosed, closerPc, regd, unregd, joined, ghVars, wireVars>>

\* one iteration of the inner loop of the fan-out (src/hub.go:85-90,
\* 96-101): a session the filter rejects is skipped; s.output <- e is a
\* plain channel send, which waits while the queue is full
HubForward ==
  /\ hubPc = "fanout"
  /\ hubTodo # << >>
  /\ LET s == Head(hubTodo) IN
       IF FilterRejects(hubEnv, s)
         THEN UNCHANGED <<output, fwd, accepted>>
         ELSE /\ Len(output[s]) < config.MessageBufferSize
              /\ output' = [output EXCEPT ![s] = Append(@, Msg(TextMessage, hubEnv.id))]
              /\ accepted' = [accepted EXCEPT ![s] = Record(s, @, Msg(TextMessage, hubEnv.id))]
              /\ fwd' = Append(fwd, s)
  /\ hubTodo' = Tail(hubTodo)
  /\ UNCHANGED <<hubPc, closed, exitReq, sessions, hubEnv, exitKey,
                 hwPc, wpPc, outClosed, connClosed, errLog, discCount, writes,
                 pushVars, closerPc, regd, unregd, joined, ghVars, written, peers, handlers, config, tapped>>

\* the loops of the broadcast case are over: back to the select
HubForwardDone ==
  /\ hubPc = "fanout"
  /\ hubTodo = << >>
  /\ hubPc' = "select"
  /\ hubEnv' = NoEnv
  /\ fwd' = << >>
  /\ UNCHANGED <<closed, exitReq, sessions, hubTodo, exitKey, sessVars,
                 pushVars, closerPc, regd, unregd, joined, ghVars, wireVars>>

\* case <-h.exit: the hub marks itself closed (src/hub.go:35-36)
HubExit ==
  /\ hubPc = "select"
  /\ exitReq
  /\ closed' = 1
  /\ hubPc' = "exitRange"
  /\ UNCHANGED <<exitReq, sessions, hubEnv, hubTodo, exitKey, sessVars,
                 pushVars, closerPc, histVars, ghVars, wireVars>>

\* the exit case without its range over the registry: the loop is left at once
HubExitNoRange ==
  /\ hubPc = "exitRange"
  /\ hubPc' = "signal"
  /\ UNCHANGED <<closed, exitReq, sessions, hubEnv, hubTodo, exitKey, sessVars,
                 pushVars, closerPc, histVars, ghVars, wireVars>>

\* for key, ss := range h.sessions (src/hub.go:38, 44, 47): the next key
\* in any order; a key without sessions is deleted at once; with no key
\* left the loop is left for h.exited <- true
HubExitRange ==
  /\ hubPc = "exitRange"
  /\ IF DOMAIN sessions = {}
       THEN /\ hubPc' = "signal"
            /\ UNCHANGED <<sessions, hubTodo, exitKey>>
       ELSE \E k \in DOMAIN sessions :
              IF sessions[k] = << >>
                THEN /\ sessions' = DeleteKey(sessions, k)
                     /\ UNCHANGED <<hubPc, hubTodo, exitKey>>
                ELSE /\ hubTodo' = sessions[k]
                     /\ exitKey' = k
                     /\ hubPc' = "exitClose"
                     /\ UNCHANGED sessions
  /\ UNCHANGED <<closed, exitReq, hubEnv, sessVars,
                 pushVars, closerPc, histVars, ghVars, wireVars>>

\* s.Close() of the exit case (src/hub.go:40)
HubExitSessionClose ==
  /\ hubPc = "exitClose"
  /\ LET s == Head(hubTodo) IN
       /\ output' = [output EXCEPT ![s] = WriteMessageQueue(@, outClosed[s], Msg(CloseMessage, 0))]
       /\ errLog' = [errLog EXCEPT ![s] = WriteMessageErrors(output[s], outClosed[s], @)]
  /\ hubPc' = "exitCloseOutput"
  /\ UNCHANGED <<closed, exitReq, sessions, hubEnv, hubTodo, exitKey,
                 hwPc, wpPc, outClosed, connClosed, discCount, writes,
                 pushVars, closerPc, histVars, ghVars, written, peers, handlers, config, tapped>>
  /\ accepted' = [accepted EXCEPT ![Head(hubTodo)] = Accept(Head(hubTodo), @, Msg(CloseMessage, 0))]

\* close(s.output) of the exit case (src/hub.go:41)
HubExitCloseOutput ==
  /\ hubPc = "exitCloseOutput"
  /\ outClosed' = [outClosed EXCEPT ![Head(hubTodo)] = TRUE]
  /\ hubPc' = "exitWait"
  /\ UNCHANGED <<closed, exitReq, sessions, hubEnv, hubTodo, exitKey,
                 hwPc, wpPc, output, connClosed, errLog, discCount, writes,
                 pushVars, closerPc, histVars, ghVars, wireVars, peers, handlers, config, tapped>>

\* <-s.exited of the exit case, paired with s.exited <- true of writePump
\* (src/hub.go:42-44, src/unnamed/part_000:112); after the last session of
\* the key the key is deleted
HubExitJoin ==
  /\ hubPc = "exitWait"
  /\ LET s == Head(hubTodo) IN
       /\ wpPc[s] = "exiting"
       /\ wpPc' = [wpPc EXCEPT ![s] = "deferred"]
       /\ joined' = joined \cup {s}
  /\ hubTodo' = Tail(hubTodo)
  /\ IF Tail(hubTodo) = << >>
       THEN /\ sessions' = DeleteKey(sessions, exitKey)
            /\ exitKey' = NoKey
            /\ hubPc' = "exitRange"
       ELSE /\ hubPc' = "exitClose"
            /\ UNCHANGED <<sessions, exitKey>>
  /\ UNCHANGED <<closed, exitReq, hubEnv,
                 hwPc, output, outClosed, connClosed, errLog, discCount, writes,
                 pushVars, closerPc, fwd, regd, unregd, ghVars, wireVars, peers, handlers, config, tapped>>

\* h.exited <- true, paired with <-h.exited of Hub.Close
\* (src/hub.go:107, 112)
HubSignalExited ==
  /\ hubPc = "signal"
  /\ closerPc = "wait"
  /\ hubPc' = "done"
  /\ closerPc' = "done"
  /\ UNCHANGED <<closed, exitReq, sessions, hubEnv, hubTodo, exitKey, sessVars,
                 pushVars, histVars, ghVars, wireVars>>

\* ------------------------------------------------- Hub.Close, PushMessage
\* CloseBooster -> Hub.Close: close(h.exit) (src/booster.go:176-180,
\* src/hub.go:110-111)
CloseCall ==
  /\ closerPc = "idle"
  /\ exitReq' = TRUE
  /\ closerPc' = "wait"
  /\ UNCHANGED <<hubPc, closed, sessions, hubEnv, hubTodo, exitKey, sessVars,
                 pushVars, histVars, ghVars, wireVars>>

\* a further CloseBooster -> Hub.Close after the first one has returned:
\* close(h.exit) on the closed channel panics (src/booster.go:176-180,
\* src/hub.go:110-111)
CloseAgain ==
  /\ closerPc = "done"
  /\ closerPc' = "panicked"
  /\ UNCHANGED <<hubVars, sessVars, pushVars, histVars, ghVars, wireVars>>

\* PushMessage up to the send (src/booster.go:107-113): a closed hub makes
\* it return the error, otherwise the envelope is built
PushCall(uids, f) ==
  /\ pushPc = "idle"
  /\ pushes < MaxPush
  /\ pushes' = pushes + 1
  /\ pushSawClosed' = (closed = 1)
  /\ IF Closed
       THEN /\ pushResult' = "hub closed"
            /\ UNCHANGED <<pushPc, pushEnv>>
       ELSE /\ pushPc' = "send"
            /\ pushEnv' = [id |-> pushes + 1, userIds |-> uids, filter |-> f]
            /\ pushResult' = "none"
  /\ UNCHANGED <<hubVars, sessVars, closerPc, histVars, ghVars, wireVars>>

\* ---------------------------------------------------------- Booster.getHub
\* getHub is entered and b.RLock() taken (src/booster.go:182-183)
GhRLock(c, a) ==
  /\ ghPc[c] = "idle"
  /\ ghCalls[c] < MaxGetHub
  /\ ~rwWriter
  /\ rwReaders' = rwReaders + 1
  /\ ghCalls' = [ghCalls EXCEPT ![c] = @ + 1]
  /\ ghApp' = [ghApp EXCEPT ![c] = a]
  /\ ghH' = [ghH EXCEPT ![c] = NoHub]
  /\ ghPc' = [ghPc EXCEPT ![c] = "check"]
  /\ UNCHANGED <<hubVars, sessVars, pushVars, closerPc, histVars, wireVars, hubs, created, rwWriter>>

\* the lookup under the read lock, then b.RUnlock(): a hub found is
\* returned, a missing one is to be created (src/booster.go:184-185, 197-199)
GhCheck(c) ==
  /\ ghPc[c] = "check"
  /\ rwReaders' = rwReaders - 1
  /\ IF ghApp[c] \in DOMAIN hubs
       THEN /\ ghH' = [ghH EXCEPT ![c] = hubs[ghApp[c]]]
            /\ ghPc' = [ghPc EXCEPT ![c] = "returned"]
       ELSE /\ ghPc' = [ghPc EXCEPT ![c] = "create"]
            /\ UNCHANGED ghH
  /\ UNCHANGED <<hubVars, sessVars, pushVars, closerPc, histVars, wireVars, hubs, created,
                 rwWriter, ghApp, ghCalls>>

\* h := NewHub(); go h.Run()  (src/booster.go:187-188)
GhCreate(c) ==
  /\ ghPc[c] = "create"
  /\ created' = [created EXCEPT ![ghApp[c]] = @ + 1]
  /\ ghH' = [ghH EXCEPT ![c] = 1 + created["x"] + created["y"]]
  /\ ghPc' = [ghPc EXCEPT ![c] = "lock"]
  /\ UNCHANGED <<hubVars, sessVars, pushVars, closerPc, histVars, wireVars, hubs,
                 rwReaders, rwWriter, ghApp, ghCalls>>

\* b.Lock()  (src/booster.go:190)
GhLock(c) ==
  /\ ghPc[c] = "lock"
  /\ rwReaders = 0 /\ ~rwWriter
  /\ rwWriter' = TRUE
  /\ ghPc' = [ghPc EXCEPT ![c] = "store"]
  /\ UNCHANGED <<hubVars, sessVars, pushVars, closerPc, histVars, wireVars, hubs, created,
                 rwReaders, ghApp, ghH, ghCalls>>

\* b.hubs[appId] = h; b.Unlock(); return h  (src/booster.go:191-194)
GhStore(c) ==
  /\ ghPc[c] = "store"
  /\ hubs' = [a \in DOMAIN hubs \cup {ghApp[c]} |->
                IF a = ghApp[c] THEN ghH[c] ELSE hubs[a]]
  /\ rwWriter' = FALSE
  /\ ghPc' = [ghPc EXCEPT ![c] = "returned"]
  /\ UNCHANGED <<hubVars, sessVars, pushVars, closerPc, histVars, wireVars, created,
                 rwReaders, ghApp, ghH, ghCalls>>

\* the caller uses the hub and may call getHub again
GhDone(c) ==
  /\ ghPc[c] = "returned"
  /\ ghCalls[c] < MaxGetHub
  /\ ghPc' = [ghPc EXCEPT ![c] = "idle"]
  /\ UNCHANGED <<hubVars, sessVars, pushVars, closerPc, histVars, wireVars, hubs, created,
                 rwReaders, rwWriter, ghApp, ghH, ghCalls>>

\* -------------------------------------------------------------------- Spec
HubOpenStep ==
  \/ \E s \in Sessions : HubRegister(s) \/ HubUnRegister(s)
  \/ HubBroadcast \/ HubForward \/ HubForwardDone

HubExitStep ==
  \/ HubExit \/ HubExitRange \/ HubExitSessionClose \/ HubExitCloseOutput
  \/ HubExitJoin \/ HubSignalExited

HubStep == HubOpenStep \/ HubExitStep

WritePumpStep(s) ==
  \/ \E ok \in BOOLEAN : WpWrite(s, ok) \/ WpOutputClosed(s, ok)
  \/ WpDeferred(s)

HandleWsStep(s) ==
  \/ HwConnect(s) \/ HwSpawn(s)
  \/ \E why \in {"error", "closeFrame"} : ReadPumpExit(s, why)
  \/ ReadPumpMessage(s)

HostWrite == \E s \in Sessions, t \in {TextMessage, CloseMessage} : SessionWrite(s, t)

\* the whole program: peers connect and leave, the host pushes, writes to
\* sessions and shuts down
Next ==
  \/ HubStep
  \/ \E s \in Sessions : HandleWsStep(s) \/ WritePumpStep(s)
  \/ HostWrite
  \/ \E uids \in {<< >>, <<"a", "a">>} : PushCall(uids, NoFilter)
  \/ CloseCall

Spec == Init /\ [][Next]_vars

\* an open hub: every peer connects and leaves with a close frame, the
\* host pushes every kind of envelope and never shuts down
InitOpen == InitHub /\ peers = Sessions /\ Defaults

NextOpen ==
  \/ HubOpenStep
  \/ \E s \in Sessions : HwConnect(s) \/ HwSpawn(s) \/ ReadPumpExit(s, "closeFrame")
  \/ \E s \in Sessions, ok \in BOOLEAN : WpWrite(s, ok)
  \/ \E uids \in TargetChoices, f \in FilterChoices : PushCall(uids, f)

SpecOpen == InitOpen /\ [][NextOpen]_vars

\* pushes and shutdown, no host writes
NextPush ==
  \/ HubStep
  \/ \E s \in Sessions : HandleWsStep(s) \/ WritePumpStep(s)
  \/ \E uids \in TargetChoices : PushCall(uids, NoFilter)
  \/ CloseCall

SpecPush == InitPair /\ [][NextPush]_vars

\* host writes and shutdown, no pushes
NextWrite ==
  \/ \E s \in Sessions : HubRegister(s) \/ HubUnRegister(s)
  \/ HubExitStep
  \/ \E s \in Sessions : HandleWsStep(s) \/ WritePumpStep(s)
  \/ HostWrite
  \/ CloseCall

SpecWrite == InitPair /\ [][NextWrite]_vars

\* concurrent first use of getHub: no hub exists yet
InitGetHub ==
  /\ InitCore /\ InitCallers /\ peers = {} /\ Defaults
  /\ hubs = [a \in {} |-> NoHub]
  /\ created = [a \in AppIds |-> 0]

NextGetHub ==
  \E c \in Callers :
    \/ \E a \in AppIds : GhRLock(c, a)
    \/ GhCheck(c) \/ GhCreate(c) \/ GhLock(c) \/ GhStore(c) \/ GhDone(c)

SpecGetHub == InitGetHub /\ [][NextGetHub]_vars

\* one peer; every goroutine that can take a step eventually takes one
\* (the Go scheduler); the host and the transport are free
InitOne == InitHub /\ peers = {"s1"} /\ Defaults

Fairness ==
  /\ WF_vars(HubStep)
  /\ \A s \in Sessions : WF_vars(WritePumpStep(s))
  /\ \A s \in Sessions : WF_vars(HwSpawn(s))
  /\ \A s \in Sessions : WF_vars(\E why \in {"error", "closeFrame"} : ReadPumpExit(s, why))

FairSpec == InitOne /\ [][Next]_vars /\ Fairness

\* one tapped session with a queue of more than one envelope
InitOrder ==
  /\ InitHub /\ peers = {"s1"} /\ handlers = AllHandlers
  /\ config = [MessageBufferSize |-> MessageBufferSize + 1] /\ tapped = {"s1"}

SpecOrder == InitOrder /\ [][Next]_vars

\* a host that has registered any subset of the callbacks and may call
\* CloseBooster again; once a panic has ended the process nothing steps
InitOptional ==
  /\ InitHub /\ peers = {"s1"} /\ handlers \in SUBSET AllHandlers
  /\ config = [MessageBufferSize |-> MessageBufferSize] /\ tapped = {}

NextOptional ==
  \/ ~Crashed /\ HubStep
  \/ \E s \in Sessions : ~Crashed /\ HandleWsStep(s)
  \/ \E s \in Sessions : ~Crashed /\ WritePumpStep(s)
  \/ ~Crashed /\ HostWrite
  \/ \E uids \in {<< >>, <<"a", "a">>} : ~Crashed /\ PushCall(uids, NoFilter)
  \/ ~Crashed /\ CloseCall
  \/ ~Crashed /\ CloseAgain

SpecOptional == InitOptional /\ [][NextOptional]_vars

\* ------------------------------------------------------------------ claims
\* the sessions in the registry
Registered == UNION {Range(sessions[u]) : u \in DOMAIN sessions}

NoDuplicates(q) == \A i, j \in 1..Len(q) : i # j => q[i] # q[j]

\* C1: while the open Hub runs a broadcast with a non-empty targetUsers
\* list, the sessions it has forwarded the envelope to are registered under
\* a listed user and pass the filter, and when the loops are over they are
\* exactly those sessions: no unknown user matters, no session of an
\* unlisted user and no session the filter rejects is among them.
TargetedFanoutExact ==
  (hubPc = "fanout" /\ Len(hubEnv.userIds) > 0) =>
    LET expected ==
          {s \in Sessions :
             /\ \E u \in Range(hubEnv.userIds) :
                  u \in DOMAIN sessions /\ s \in Range(sessions[u])
             /\ hubEnv.filter.nil \/ s \in hubEnv.filter.pass}
    IN /\ Range(fwd) \subseteq expected
       /\ hubTodo = << >> => Range(fwd) = expected

\* a broadcast to user a is over: both sessions of a got it, the
\* registered session of user b did not
TargetedFanoutSeen ==
  /\ hubPc = "fanout" /\ hubTodo = << >>
  /\ hubEnv.userIds = <<"a">> /\ hubEnv.filter.nil
  /\ Range(fwd) = {"s1", "s2"}
  /\ "s3" \in Registered

\* C2: while the open Hub runs a broadcast with an empty targetUsers list,
\* the sessions it has forwarded the envelope to are registered and pass
\* the filter, each at most once, and when the loops are over they are all
\* the registered sessions passing the filter.
AllUsersFanoutExact ==
  (hubPc = "fanout" /\ Len(hubEnv.userIds) = 0) =>
    LET expected ==
          {s \in Registered : hubEnv.filter.nil \/ s \in hubEnv.filter.pass}
    IN /\ Range(fwd) \subseteq expected
       /\ NoDuplicates(fwd)
       /\ hubTodo = << >> => Range(fwd) = expected

\* a filtered broadcast to all users is over: the sessions of two users
\* that pass the filter got it, the registered session it rejects did not
AllUsersFanoutSeen ==
  /\ hubPc = "fanout" /\ hubTodo = << >>
  /\ hubEnv.userIds = << >> /\ ~hubEnv.filter.nil
  /\ Range(fwd) = {"s1", "s3"}
  /\ "s2" \in Registered

\* C3: as long as the Hub is open, after any processed register and
\* unRegister requests the registry holds exactly the sessions registered
\* and not unregistered, each once and under its own user.
RegistryExact ==
  closed = 0 =>
    /\ Registered = regd \ unregd
    /\ \A u \in DOMAIN sessions :
         /\ NoDuplicates(sessions[u])
         /\ \A s \in Range(sessions[u]) : userId[s] = u

\* the first session of user a was unregistered; the second one and the
\* session of user b are still there
RegistryExactSeen ==
  /\ closed = 0
  /\ "s1" \in unregd
  /\ Registered = {"s2", "s3"}

\* C4: the Hub event loop is never waiting on a session's outbound queue:
\* it is never at the send of its fan-out with that session's queue full.
FanoutNeverBlocks ==
  ~ /\ hubPc = "fanout"
    /\ hubTodo # << >>
    /\ ~FilterRejects(hubEnv, Head(hubTodo))
    /\ Len(output[Head(hubTodo)]) >= config.MessageBufferSize

\* a call of writeMessage on session s: by the host (Write, Close) or by
\* the exit case of the Hub (Close)
WriteMessageCall(s) ==
  \/ \E t \in {TextMessage, CloseMessage} : SessionWrite(s, t)
  \/ HubExitSessionClose /\ hubTodo # << >> /\ Head(hubTodo) = s

Saturated(s) == Len(output[s]) >= config.MessageBufferSize

\* C5 (as stated): every Write / Close on a session whose outbound queue is
\* saturated leaves the queue as it is and invokes the error callback
\* exactly once, for the dropped message.
SaturatedWriteReported ==
  [][\A s \in Sessions :
       (WriteMessageCall(s) /\ Saturated(s)) =>
         /\ output'[s] = output[s]
         /\ errLog'[s] = Append(errLog[s], "full")]_vars

\* C5 (amended): every Write / Close on a session whose outbound queue is
\* saturated and has not been closed leaves the queue as it is and invokes
\* the error callback exactly once; on a closed queue the message is
\* dropped as well and the error callback is not invoked.
SaturatedOpenWriteReported ==
  [][\A s \in Sessions :
       (WriteMessageCall(s) /\ Saturated(s)) =>
         /\ output'[s] = output[s]
         /\ errLog'[s] = IF outClosed[s] THEN errLog[s]
                         ELSE Append(errLog[s], "full")]_vars

\* the host wrote to a session with a full, open queue of an open hub:
\* the queue is still full and the error callback was invoked
SaturatedWriteSeen ==
  \E s \in Sessions :
    /\ closed = 0 /\ ~outClosed[s]
    /\ Saturated(s)
    /\ errLog[s] = <<"full">>

\* C6: the write loop has closed the transport before it signals exited,
\* so Hub.Close returns only after the transport of every session the Hub
\* joined is closed.
CloseAfterTransportsClosed ==
  /\ \A s \in Sessions : wpPc[s] \in {"deferred", "done"} => connClosed[s]
  /\ closerPc = "done" => \A s \in joined : connClosed[s]

\* C7: once Hub.Close is called it eventually returns.
ShutdownCompletes == (closerPc = "wait") ~> (closerPc = "done")

\* C8: once Hub.Close has returned (the Hub's event loop has ended), no
\* HandleWs whose read loop has terminated is left at the send on the
\* Hub's unRegister channel, where nobody receives any more: it has
\* unregistered, called the disconnect callback once and returned.
NoHandlerLeftBlocked ==
  (closerPc = "done" /\ hubPc = "done") =>
    \A s \in Sessions : hwPc[s] # "unregister"

\* C9: for every appId at most one Hub is created, and all callers that
\* getHub has returned to for that appId hold the same Hub.
OneHubPerApp ==
  /\ \A a \in AppIds : created[a] <= 1
  /\ \A c, d \in Callers :
       (ghPc[c] = "returned" /\ ghPc[d] = "returned" /\ ghApp[c] = ghApp[d])
         => ghH[c] = ghH[d]

\* C10: a PushMessage call made when the Hub is closed returns the
\* "hub closed" error without reaching the send on the broadcast channel,
\* and its envelope is in no session's queue nor with the Hub.
PushOnClosedHubFails ==
  pushSawClosed =>
    /\ pushPc = "idle"
    /\ pushResult = "hub closed"
    /\ hubEnv.id # pushes
    /\ \A s \in Sessions : \A i \in 1..Len(output[s]) : output[s][i].id # pushes

\* a push was refused by a closed hub that had sessions
PushOnClosedHubSeen ==
  /\ pushSawClosed /\ pushResult = "hub closed"
  /\ regd # {}


\* C11: no PushMessage call is left at its send on the broadcast channel
\* of a Hub whose event loop has ended, where nobody receives any more: a
\* call that runs along with the shutdown returns.
PushNeverLeftBlocked == ~(hubPc = "done" /\ pushPc = "send")


\* C13: a session whose read loop has reported a failed read gets no second
\* invocation of the error callback for the failure of its transport: after
\* the "read" entry of its log there is no "write" entry.
ReadFailureReportedOnce ==
  \A s \in Sessions :
    \A i, j \in DOMAIN errLog[s] :
      (i < j /\ errLog[s][i] = "read") => errLog[s][j] # "write"


\* C14: a session whose write loop has ended on a failed write never holds
\* up the Hub: the Hub is never stopped at that session's full queue with
\* other targeted sessions still to be served.
DeadSessionNeverStallsHub ==
  \A s \in Sessions :
    ~(/\ hubPc = "fanout"
      /\ hubTodo # << >>
      /\ Head(hubTodo) = s
      /\ ~FilterRejects(hubEnv, s)
      /\ wpPc[s] = "exiting"
      /\ Len(output[s]) = config.MessageBufferSize
      /\ \E o \in Sessions \ {s} : o \in Range(Tail(hubTodo)))


\* C17: a session is in the registry only while its write loop is active:
\* no session whose write loop has left its loop is still registered.
RegisteredOnlyWhileWriting ==
  \A s \in Sessions :
    s \in Registered => wpPc[s] \notin {"exiting", "deferred", "done"}


\* C18: no write loop is left at its send on s.exited once its session's
\* handler has returned and the session is out of the registry: from there
\* the Hub, the only receiver of s.exited, never receives from it, so the
\* write loop would never terminate.
WriteLoopNeverStranded ==
  \A s \in Sessions :
    ~(hwPc[s] = "done" /\ s \notin Registered /\ wpPc[s] = "exiting")


\* C19: the closed flag never goes back to 0; once the Hub is marked closed
\* no step registers or unregisters a session, starts or continues a
\* fan-out, adds anything to the registry, or appends to a queue anything
\* but the close envelope of the shutdown; and when the Hub is about to
\* signal, or has signalled, its completion the registry is empty and every
\* session that was registered and not unregistered has handed over its
\* exited signal.
ClosingHubIsInert ==
  [][/\ closed = 1 =>
          /\ closed' = 1
          /\ regd' = regd /\ unregd' = unregd /\ fwd' = fwd
          /\ hubPc' # "fanout"
          /\ \A u \in DOMAIN sessions' :
               u \in DOMAIN sessions /\ sessions'[u] = sessions[u]
          /\ \A s \in Sessions :
               Len(output'[s]) > Len(output[s]) =>
                 output'[s] = Append(output[s], Msg(CloseMessage, 0))
     /\ hubPc' \in {"signal", "done"} =>
          /\ DOMAIN sessions' = {}
          /\ (regd' \ unregd') \subseteq joined']_vars

\* the Hub has completed a shutdown of two registered sessions, under
\* different users, while a broadcast request was waiting to be received
ClosingHubSeen ==
  /\ hubPc = "done"
  /\ joined = {"s1", "s3"}
  /\ pushPc = "send"


\* C15: whichever callbacks the host has left unregistered, no read loop
\* and no write loop ends in a panic when its event occurs.
UnregisteredCallbackSafe ==
  \A s \in Sessions : hwPc[s] # "panicked" /\ wpPc[s] # "panicked"

\* C20: a CloseBooster / Hub.Close call made after the shutdown has
\* completed returns without a panic.
SecondCloseReturns == closerPc # "panicked"


\* C12: once the close envelope of Session.Close() has been written to the
\* transport, the write loop takes no further envelope out of the queue.
CloseFrameIsLast ==
  [][\A s \in tapped :
       Msg(CloseMessage, 0) \in Range(written[s]) =>
         ~(wpPc[s] = "loop" /\ Len(output'[s]) < Len(output[s]))]_vars

\* C16: the envelopes written to a session's transport are, in order, the
\* first envelopes its queue accepted, and the queue holds, in order, the
\* last ones; at most one envelope, the one whose write failed, is in
\* neither: nothing is written twice or out of order.
WrittenInAcceptedOrder ==
  \A s \in tapped :
    LET w == written[s]
        a == accepted[s]
        q == output[s]
    IN  /\ Len(w) <= Len(a)
        /\ w = SubSeq(a, 1, Len(w))
        /\ Len(q) <= Len(a) - Len(w)
        /\ q = SubSeq(a, Len(a) - Len(q) + 1, Len(a))
        /\ Len(a) - Len(w) - Len(q) <= 1

\* two different envelopes have been written while two more were queued
WrittenInOrderSeen ==
  /\ Len(written["s1"]) >= 2
  /\ written["s1"][1] # written["s1"][2]
  /\ Len(output["s1"]) = 2

====
